---- MODULE Spec2Model ----
(***************************************************************************)
(* Model of src/datasets/inspect.py: the listing, inspection and metadata  *)
(* functions of the datasets library.  Every public function is one        *)
(* action; the collaborators it calls (catalog client, module factory,     *)
(* class importer, loader, streaming adapter, download configuration,      *)
(* streaming download manager, the builder's _split_generators) are        *)
(* inputs whose outcomes are drawn from bounded sets.                      *)
(*                                                                         *)
(* Python values: None is the string "None"; an optional mapping is a      *)
(* sequence of length 0 (None) or 1; a dict is the sequence of its         *)
(* [k, v] items in insertion order; a str that the code searches is a      *)
(* sequence of characters; an object is a reference into the heap.         *)
(***************************************************************************)
EXTENDS Integers, Sequences, FiniteSets, TLC

VARIABLES
    op,       \* the public function that was called ("idle" before the call)
    args,     \* its arguments
    env,      \* the behaviour of the collaborators during the call
    result,   \* what the caller gets: a returned value or a raised error
    trace,    \* the steps of the callees the call went through, in order
    stdout,   \* what the call printed
    heap      \* the DownloadConfig objects, by reference

vars == <<op, args, env, result, trace, stdout, heap>>

(***************************** bounds **************************************)
MaxCatalog == 3     \* entries in a catalog response
MaxConfigs == 2     \* configurations a builder class declares
MaxGens    == 3     \* split generators _split_generators returns

(***************************** Python values *******************************)
None == "None"

Range(s) == {s[i] : i \in 1..Len(s)}

SeqsUpTo(S, n) == UNION {[1..k -> S] : k \in 0..n}

DistinctSeqsUpTo(S, n) == {s \in SeqsUpTo(S, n) : \A i, j \in 1..Len(s) : i # j => s[i] # s[j]}

\* x in s, for a str s and a one-character str x
StrContains(s, x) == \E i \in 1..Len(s) : s[i] = x

\* dict: the items in insertion order, keys unique
DictHas(d, k) == \E i \in 1..Len(d) : d[i].k = k

DictIndex(d, k) == CHOOSE i \in 1..Len(d) : d[i].k = k

\* d[k] = v: a new key goes last, an existing key keeps its place
DictSet(d, k, v) ==
    IF DictHas(d, k) THEN [d EXCEPT ![DictIndex(d, k)] = [k |-> k, v |-> v]]
    ELSE Append(d, [k |-> k, v |-> v])

\* d.get(k, default)
DictGet(d, k, default) == IF DictHas(d, k) THEN d[DictIndex(d, k)].v ELSE default

\* list(d.keys())
DictKeys(d) == [i \in 1..Len(d) |-> d[i].k]

(***************************** errors and outcomes *************************)
\* the errors the collaborators raise
ErrTypes == {"ConnectionError", "KeyboardInterrupt"}

\* isinstance(err, Exception): KeyboardInterrupt derives from BaseException only
IsException(t) == t # "KeyboardInterrupt"

RawError(t) == [type |-> t, msg |-> "raised by the collaborator", cause |-> <<>>]

SplitsNotFoundMessage == "The split names could not be parsed from the dataset config."

\* raise SplitsNotFoundError(...) from err
SplitsNotFoundError(err) ==
    [type |-> "SplitsNotFoundError", msg |-> SplitsNotFoundMessage, cause |-> <<err>>]

Return(v) == [kind |-> "return", value |-> v, error |-> <<>>]

Raise(e) == [kind |-> "raise", value |-> None, error |-> <<e>>]

NoResult == [kind |-> "none", value |-> None, error |-> <<>>]

Call(fn, a) == [fn |-> fn, a |-> a]

NoEnv == [fail |-> "none", err |-> None]

(***************************** list_datasets, list_metrics *****************)
Ids == {<<"g">>, <<"s">>, <<"u", "/", "s">>}

CatalogEnvs ==
    {[fail |-> "none", err |-> None, ids |-> c] : c \in SeqsUpTo(Ids, MaxCatalog)}
    \cup {[fail |-> "hub", err |-> e, ids |-> <<>>] : e \in ErrTypes}

\* huggingface_hub.list_datasets(full=...): the records of the catalog
HubListDatasets(ids, full) ==
    [i \in 1..Len(ids) |-> [id |-> ids[i], detail |-> IF full THEN "full" ELSE "brief"]]

\* huggingface_hub.list_metrics()
HubListMetrics(ids) == [i \in 1..Len(ids) |-> [id |-> ids[i], detail |-> "metric"]]

\* variant: only a leading separator marks a community entry
IsCanonical_leading(record) == record.id[1] # "/"

IsCanonical(record) == ~StrContains(record.id, "/")

ProjectIds(records) == [i \in 1..Len(records) |-> records[i].id]

FilterAndProject(records, with_community, with_details) ==
    LET kept == IF ~with_community THEN SelectSeq(records, IsCanonical) ELSE records
    IN  IF ~with_details THEN ProjectIds(kept) ELSE kept

list_datasets(with_community_datasets, with_details, e) ==
    IF e.fail = "hub" THEN Raise(RawError(e.err))
    ELSE Return(FilterAndProject(HubListDatasets(e.ids, with_details),
                                 with_community_datasets, with_details))

list_metrics(with_community_metrics, with_details, e) ==
    IF e.fail = "hub" THEN Raise(RawError(e.err))
    ELSE Return(FilterAndProject(HubListMetrics(e.ids),
                                 with_community_metrics, with_details))

(***************************** arguments ***********************************)
Paths == {"glue", "user/squad"}

AuthTokens == {None, "False", "hf_token"}

\* download_config=None
NullRef == 0

\* the caller's download_config: None, or the object at reference 1
DownloadConfigRefs == {NullRef, 1}

\* get_dataset_config_info tests its download_config for truth: the caller
\* passes None, the object at reference 1, or the falsy object at reference 2
TestedDownloadConfigRefs == {NullRef, 1, 2}

\* data_files, download_mode, revision and the keyword overrides are passed
\* through as they are: one value each, different from every default
InfoArgs ==
    {[path |-> p, config_name |-> c, data_files |-> "data_files",
      download_config |-> dc, download_mode |-> "download_mode",
      revision |-> "revision", use_auth_token |-> t, config_kwargs |-> "config_kwargs"] :
        p \in Paths, c \in {None, "cola"}, dc \in TestedDownloadConfigRefs, t \in AuthTokens}

InspectArgs ==
    {[path |-> p, local_path |-> "local_path", download_config |-> dc,
      download_kwargs |-> None] :
        p \in Paths, dc \in DownloadConfigRefs}

(***************************** inspect_dataset, inspect_metric *************)
FactoryEnvs ==
    {[fail |-> "none", err |-> None]}
    \cup {[fail |-> "factory", err |-> e] : e \in ErrTypes}

ModulePath(path) == <<"modules", path>>

\* what each of the two functions does with its factory
Inspect(factory, a, e) ==
    LET t == <<Call(factory, <<a.path, a.download_config, a.local_path, a.download_kwargs>>)>>
    IN  IF e.fail = "factory"
        THEN [result |-> Raise(RawError(e.err)), trace |-> t, stdout |-> <<>>]
        ELSE [result |-> Return(None), trace |-> t,
              stdout |-> <<<<a.path, a.local_path, ModulePath(a.path)>>>>]

inspect_dataset(a, e) == Inspect("dataset_module_factory", a, e)

inspect_metric(a, e) == Inspect("metric_module_factory", a, e)

(***************************** get_dataset_config_names ********************)
ConfigNames == {"cola", "sst2", "mrpc"}

DefaultConfigName == "default"

\* the builder kwargs of the module: no config_name, one set to None, one set
BuilderKwargs ==
    { <<[k |-> "hash", v |-> "h"]>>,
      <<[k |-> "hash", v |-> "h"], [k |-> "config_name", v |-> None]>>,
      <<[k |-> "config_name", v |-> "user--squad"], [k |-> "hash", v |-> "h"]>> }

\* builder_cls.builder_configs: the declared configurations by name, in
\* declaration order
BuilderConfigs(names) == [i \in 1..Len(names) |-> [k |-> names[i], v |-> [name |-> names[i]]]]

NamesEnvs ==
    {[fail |-> "none", err |-> None, builder_configs |-> BuilderConfigs(c),
      builder_kwargs |-> k] :
        c \in DistinctSeqsUpTo(ConfigNames, MaxConfigs), k \in BuilderKwargs}
    \cup {[fail |-> f, err |-> e, builder_configs |-> <<>>,
           builder_kwargs |-> <<[k |-> "hash", v |-> "h"]>>] :
        f \in {"dataset_module_factory", "import_main_class"}, e \in ErrTypes}

\* variant: the fallback name is added to the declared names
ListOr_append(x, y) == x \o y

\* x or y, for a list x
ListOr(x, y) == IF x # <<>> THEN x ELSE y

\* line 283
ConfigNamesOf(builder_configs, builder_kwargs) ==
    ListOr(DictKeys(builder_configs), <<DictGet(builder_kwargs, "config_name", DefaultConfigName)>>)

\* a: path, revision, download_config, download_mode, force_local_path,
\* dynamic_modules_path, data_files, download_kwargs
get_dataset_config_names(a, e) ==
    LET t1 == <<Call("dataset_module_factory",
                     <<a.path, a.revision, a.download_config, a.download_mode,
                       a.force_local_path, a.dynamic_modules_path, a.data_files,
                       a.download_kwargs>>)>>
        t2 == Append(t1, Call("import_main_class", <<ModulePath(a.path)>>))
    IN  IF e.fail = "dataset_module_factory"
        THEN [result |-> Raise(RawError(e.err)), trace |-> t1]
        ELSE IF e.fail = "import_main_class"
        THEN [result |-> Raise(RawError(e.err)), trace |-> t2]
        ELSE [result |-> Return(ConfigNamesOf(e.builder_configs, e.builder_kwargs)),
              trace |-> t2]

NamesArgs ==
    {[path |-> p, revision |-> "revision", download_config |-> dc,
      download_mode |-> "download_mode", force_local_path |-> None,
      dynamic_modules_path |-> None, data_files |-> "data_files",
      download_kwargs |-> None] :
        p \in Paths, dc \in DownloadConfigRefs}

(***************************** get_dataset_config_info *********************)
SplitNames == {"train", "test"}

RecordedSplit(n) == [k |-> n, v |-> [name |-> n, dataset_name |-> "recorded"]]

\* builder.info.splits as the loader leaves it: None, or a mapping
NoSplits == <<>>

PresentSplits ==
    { << <<>> >>,
      << <<RecordedSplit("train")>> >>,
      << <<RecordedSplit("test"), RecordedSplit("train")>> >> }

\* the steps of the function that call into a collaborator, in program order
InfoStages ==
    <<"load_dataset_builder", "extend_dataset_builder_for_streaming",
      "download_config.copy", "download_config.use_auth_token",
      "StreamingDownloadManager", "_split_generators", "split_generator.name">>

InfoEnvs ==
    {[fail |-> "none", err |-> None, splits |-> s, gens |-> g] :
        s \in {NoSplits} \cup PresentSplits, g \in SeqsUpTo(SplitNames, MaxGens)}
    \cup {[fail |-> f, err |-> e, splits |-> s, gens |-> <<"train">>] :
        f \in Range(InfoStages), e \in ErrTypes,
        s \in {NoSplits, << <<RecordedSplit("train")>> >>}}

\* variant: the try statement starts at line 320
InTryBlock_wide(stage) == TRUE

\* the try statement spans lines 333-342
InTryBlock(stage) ==
    stage \in {"download_config.copy", "download_config.use_auth_token",
               "StreamingDownloadManager", "_split_generators", "split_generator.name"}

\* variant: the raise has no "from err"
Handle_uncaused(stage, err) ==
    IF InTryBlock(stage) /\ IsException(err.type)
    THEN [SplitsNotFoundError(err) EXCEPT !.cause = <<>>]
    ELSE err

\* except Exception as err: raise SplitsNotFoundError(...) from err
Handle(stage, err) ==
    IF InTryBlock(stage) /\ IsException(err.type) THEN SplitsNotFoundError(err) ELSE err

\* bool(download_config)
Truthy(h, ref) == ref # NullRef /\ h[ref].truthy

\* DownloadConfig()
DefaultDownloadConfig == [use_auth_token |-> None, truthy |-> TRUE]

\* the stages a call goes through when nothing fails
StagesOf(a, e) ==
    <<"load_dataset_builder", "extend_dataset_builder_for_streaming">>
    \o (IF e.splits = NoSplits
        THEN <<"download_config.copy">>
             \o (IF a.use_auth_token # None THEN <<"download_config.use_auth_token">> ELSE <<>>)
             \o <<"StreamingDownloadManager", "_split_generators", "split_generator.name">>
        ELSE <<>>)

\* the stages a call went through: up to the failing one, if it is reached
StagesRun(a, e) ==
    LET all == StagesOf(a, e)
    IN  IF e.fail \in Range(all)
        THEN SubSeq(all, 1, CHOOSE i \in 1..Len(all) : all[i] = e.fail)
        ELSE all

Completed(a, e, stage) ==
    /\ stage \in Range(StagesRun(a, e))
    /\ stage # e.fail

\* variant: the records carry the split name as their dataset name
RECURSIVE SplitsOf_named(_, _)
SplitsOf_named(gens, path) ==
    IF gens = <<>> THEN <<>>
    ELSE LET last == gens[Len(gens)]
         IN  DictSet(SplitsOf_named(SubSeq(gens, 1, Len(gens) - 1), path),
                     last.name, [name |-> last.name, dataset_name |-> last.name])

\* {split_generator.name: {"name": ..., "dataset_name": path} for split_generator in ...}
RECURSIVE SplitsOf(_, _)
SplitsOf(gens, path) ==
    IF gens = <<>> THEN <<>>
    ELSE LET last == gens[Len(gens)]
         IN  DictSet(SplitsOf(SubSeq(gens, 1, Len(gens) - 1), path),
                     last.name, [name |-> last.name, dataset_name |-> path])

\* builder._split_generators(dl_manager)
SplitGenerators(e) == [i \in 1..Len(e.gens) |-> [name |-> e.gens[i]]]

\* variant: no copy, the token is written into the object of the caller
PreparedHeap_shared(a, e, h) ==
    LET shared == Truthy(h, a.download_config)
        made   == IF shared THEN h ELSE Append(h, DefaultDownloadConfig)
        ref    == IF shared THEN a.download_config ELSE Len(made)
    IN  IF ~Completed(a, e, "download_config.copy") THEN h
        ELSE IF ~Completed(a, e, "download_config.use_auth_token") THEN made
        ELSE [made EXCEPT ![ref].use_auth_token = a.use_auth_token]

\* the heap after lines 334-336; the prepared configuration is the newest object
PreparedHeap(a, e, h) ==
    LET copied == Append(h, IF Truthy(h, a.download_config) THEN h[a.download_config]
                            ELSE DefaultDownloadConfig)
    IN  IF ~Completed(a, e, "download_config.copy") THEN h
        ELSE IF ~Completed(a, e, "download_config.use_auth_token") THEN copied
        ELSE [copied EXCEPT ![Len(copied)].use_auth_token = a.use_auth_token]

\* what each stage is called with
StageCall(a, e, h, stage) ==
    CASE stage = "load_dataset_builder" ->
            Call(stage, <<a.path, a.config_name, a.data_files, a.download_config,
                          a.download_mode, a.revision, a.use_auth_token, a.config_kwargs>>)
      [] stage = "extend_dataset_builder_for_streaming" -> Call(stage, <<a.use_auth_token>>)
      [] stage = "download_config.copy" -> Call(stage, <<a.download_config>>)
      [] stage = "download_config.use_auth_token" -> Call(stage, <<a.use_auth_token>>)
      [] stage = "StreamingDownloadManager" -> Call(stage, <<Len(PreparedHeap(a, e, h))>>)
      [] stage = "_split_generators" -> Call(stage, <<>>)
      [] stage = "split_generator.name" -> Call(stage, <<a.path>>)

\* variant: the handler logs the error and goes on
InfoOutcome_swallow(a, e) ==
    LET info == [splits |-> e.splits]
    IN  IF e.fail \in Range(StagesRun(a, e))
        THEN (IF InTryBlock(e.fail) /\ IsException(e.err)
              THEN Return(info) ELSE Raise(RawError(e.err)))
        ELSE IF info.splits = NoSplits
        THEN Return([info EXCEPT !.splits = <<SplitsOf(SplitGenerators(e), a.path)>>])
        ELSE Return(info)

\* what the function gives back once its stages have run: lines 331-345
InfoOutcome(a, e) ==
    LET info == [splits |-> e.splits]
    IN  IF e.fail \in Range(StagesRun(a, e))
        THEN Raise(Handle(e.fail, RawError(e.err)))
        ELSE IF info.splits = NoSplits
        THEN Return([info EXCEPT !.splits = <<SplitsOf(SplitGenerators(e), a.path)>>])
        ELSE Return(info)

get_dataset_config_info(a, e, h) ==
    LET run == StagesRun(a, e)
    IN  [result |-> InfoOutcome(a, e),
         trace  |-> [i \in 1..Len(run) |-> StageCall(a, e, h, run[i])],
         heap   |-> PreparedHeap(a, e, h)]

(***************************** get_dataset_split_names *********************)
\* variant: the keys come back in reverse order
SplitNamesOf_reversed(info) ==
    LET d == info.splits[1]
    IN  Return([i \in 1..Len(d) |-> d[Len(d) + 1 - i].k])

\* line 399; .keys() of None is an AttributeError
SplitNamesOf(info) ==
    IF info.splits = NoSplits THEN Raise(RawError("AttributeError"))
    ELSE Return(DictKeys(info.splits[1]))

get_dataset_split_names(a, e, h) ==
    LET r == get_dataset_config_info(a, e, h)
    IN  IF r.result.kind = "raise" THEN r
        ELSE [r EXCEPT !.result = SplitNamesOf(r.result.value)]

(***************************** get_dataset_infos ***************************)
\* the lookups of get_dataset_infos see one outcome of each kind: recorded
\* splits, discovered splits, a loader error, and a discovery error of either
\* kind
InfosEnvs ==
    {x \in InfoEnvs :
        /\ x.fail \in {"none", "load_dataset_builder", "_split_generators"}
        /\ x.gens = <<"train">>
        /\ x.splits \in {NoSplits, << <<RecordedSplit("train")>> >>}
        /\ (x.fail # "none" => x.splits = NoSplits)
        /\ (x.fail = "load_dataset_builder" => x.err = "ConnectionError")}

InfosArgs ==
    {[path |-> p, data_files |-> "data_files", download_config |-> dc,
      download_mode |-> "download_mode", revision |-> "revision",
      use_auth_token |-> t, config_kwargs |-> "config_kwargs"] :
        p \in Paths, dc \in DownloadConfigRefs, t \in AuthTokens}

\* lines 195-201: what get_dataset_config_names is called with
ForwardedNamesArgs(a) ==
    [path |-> a.path, revision |-> a.revision, download_config |-> a.download_config,
     download_mode |-> a.download_mode, force_local_path |-> None,
     dynamic_modules_path |-> None, data_files |-> a.data_files, download_kwargs |-> None]

\* variant: use_auth_token and the keyword overrides are not forwarded
ForwardedInfoArgs_dropped(a, config_name) ==
    [path |-> a.path, config_name |-> config_name, data_files |-> a.data_files,
     download_config |-> a.download_config, download_mode |-> a.download_mode,
     revision |-> a.revision, use_auth_token |-> None, config_kwargs |-> None]

\* lines 203-212: what get_dataset_config_info is called with
ForwardedInfoArgs(a, config_name) ==
    [path |-> a.path, config_name |-> config_name, data_files |-> a.data_files,
     download_config |-> a.download_config, download_mode |-> a.download_mode,
     revision |-> a.revision, use_auth_token |-> a.use_auth_token,
     config_kwargs |-> a.config_kwargs]

\* variant: a failing lookup is left out and the comprehension goes on
Collect_skip(acc, config_name, r) ==
    [result |-> IF r.result.kind = "raise" THEN acc.result
                ELSE Return(DictSet(acc.result.value, config_name, r.result.value)),
     trace  |-> acc.trace \o r.trace,
     heap   |-> r.heap]

\* one item of the dict comprehension: the lookup r of config_name joins acc,
\* or its error ends the comprehension
Collect(acc, config_name, r) ==
    [result |-> IF r.result.kind = "raise" THEN r.result
                ELSE Return(DictSet(acc.result.value, config_name, r.result.value)),
     trace  |-> acc.trace \o r.trace,
     heap   |-> r.heap]

\* lines 202-214, for the first n configuration names
RECURSIVE InfosOf(_, _, _, _, _)
InfosOf(a, config_names, es, h, n) ==
    IF n = 0 THEN [result |-> Return(<<>>), trace |-> <<>>, heap |-> h]
    ELSE LET acc == InfosOf(a, config_names, es, h, n - 1)
         IN  IF acc.result.kind = "raise" THEN acc
             ELSE Collect(acc, config_names[n],
                          get_dataset_config_info(ForwardedInfoArgs(a, config_names[n]),
                                                  es[n], acc.heap))

get_dataset_infos(a, e, h) ==
    LET names == get_dataset_config_names(ForwardedNamesArgs(a), e.names)
    IN  IF names.result.kind = "raise"
        THEN [result |-> names.result, trace |-> names.trace, heap |-> h]
        ELSE LET r == InfosOf(a, names.result.value, e.infos, h, Len(names.result.value))
             IN  [r EXCEPT !.trace = names.trace \o r.trace]

(***************************** state machine *******************************)
\* the objects of the caller: a DownloadConfig, and one that tests false
Heap0 ==
    <<[use_auth_token |-> "old_token", truthy |-> TRUE],
      [use_auth_token |-> "old_token", truthy |-> FALSE]>>

Init ==
    /\ op = "idle"
    /\ args = <<>>
    /\ env = NoEnv
    /\ result = NoResult
    /\ trace = <<>>
    /\ stdout = <<>>
    /\ heap = Heap0

ListDatasets ==
    /\ op = "idle"
    /\ \E c \in BOOLEAN, d \in BOOLEAN, e \in CatalogEnvs :
        /\ op' = "list_datasets"
        /\ args' = [with_community_datasets |-> c, with_details |-> d]
        /\ env' = e
        /\ result' = list_datasets(c, d, e)
        /\ trace' = <<Call("huggingface_hub.list_datasets", <<d>>)>>
    /\ UNCHANGED <<stdout, heap>>

ListMetrics ==
    /\ op = "idle"
    /\ \E c \in BOOLEAN, d \in BOOLEAN, e \in CatalogEnvs :
        /\ op' = "list_metrics"
        /\ args' = [with_community_metrics |-> c, with_details |-> d]
        /\ env' = e
        /\ result' = list_metrics(c, d, e)
        /\ trace' = <<Call("huggingface_hub.list_metrics", <<>>)>>
    /\ UNCHANGED <<stdout, heap>>

InspectDataset ==
    /\ op = "idle"
    /\ \E a \in InspectArgs, e \in FactoryEnvs :
        LET r == inspect_dataset(a, e)
        IN  /\ op' = "inspect_dataset"
            /\ args' = a
            /\ env' = e
            /\ result' = r.result
            /\ trace' = r.trace
            /\ stdout' = r.stdout
    /\ UNCHANGED heap

InspectMetric ==
    /\ op = "idle"
    /\ \E a \in InspectArgs, e \in FactoryEnvs :
        LET r == inspect_metric(a, e)
        IN  /\ op' = "inspect_metric"
            /\ args' = a
            /\ env' = e
            /\ result' = r.result
            /\ trace' = r.trace
            /\ stdout' = r.stdout
    /\ UNCHANGED heap

GetDatasetConfigNames ==
    /\ op = "idle"
    /\ \E a \in NamesArgs, e \in NamesEnvs :
        LET r == get_dataset_config_names(a, e)
        IN  /\ op' = "get_dataset_config_names"
            /\ args' = a
            /\ env' = e
            /\ result' = r.result
            /\ trace' = r.trace
    /\ UNCHANGED <<stdout, heap>>

GetDatasetConfigInfo ==
    /\ op = "idle"
    /\ \E a \in InfoArgs, e \in InfoEnvs :
        LET r == get_dataset_config_info(a, e, heap)
        IN  /\ op' = "get_dataset_config_info"
            /\ args' = a
            /\ env' = e
            /\ result' = r.result
            /\ trace' = r.trace
            /\ heap' = r.heap
    /\ UNCHANGED stdout

GetDatasetSplitNames ==
    /\ op = "idle"
    /\ \E a \in InfoArgs, e \in InfoEnvs :
        LET r == get_dataset_split_names(a, e, heap)
        IN  /\ op' = "get_dataset_split_names"
            /\ args' = a
            /\ env' = e
            /\ result' = r.result
            /\ trace' = r.trace
            /\ heap' = r.heap
    /\ UNCHANGED stdout

GetDatasetInfos ==
    /\ op = "idle"
    /\ \E a \in InfosArgs, ne \in NamesEnvs :
        LET names == get_dataset_config_names(ForwardedNamesArgs(a), ne).result
            count == IF names.kind = "return" THEN Len(names.value) ELSE 0
        IN  \E es \in [1..count -> InfosEnvs] :
                LET e == [names |-> ne, infos |-> es]
                    r == get_dataset_infos(a, e, heap)
                IN  /\ op' = "get_dataset_infos"
                    /\ args' = a
                    /\ env' = e
                    /\ result' = r.result
                    /\ trace' = r.trace
                    /\ heap' = r.heap
    /\ UNCHANGED stdout

Next ==
    \/ ListDatasets
    \/ ListMetrics
    \/ InspectDataset
    \/ InspectMetric
    \/ GetDatasetConfigNames
    \/ GetDatasetConfigInfo
    \/ GetDatasetSplitNames
    \/ GetDatasetInfos

Spec == Init /\ [][Next]_vars

(***************************** properties **********************************)
IsInfoCall == op = "get_dataset_config_info"

TryStages ==
    {"download_config.copy", "download_config.use_auth_token",
     "StreamingDownloadManager", "_split_generators", "split_generator.name"}

\* split discovery runs and one of its steps raises
DiscoveryFails ==
    /\ env.splits = <<>>
    /\ env.fail \in TryStages
    /\ (env.fail = "download_config.use_auth_token" => args.use_auth_token # "None")

TheRawError == [type |-> env.err, msg |-> "raised by the collaborator", cause |-> <<>>]

TheTranslatedError ==
    [type |-> "SplitsNotFoundError",
     msg |-> "The split names could not be parsed from the dataset config.",
     cause |-> <<TheRawError>>]

\* C1: whenever get_dataset_config_info returns normally, the splits of the
\* returned info object are not None, whatever the collaborators did.
C1_SplitsNeverUnset ==
    (IsInfoCall /\ result.kind = "return") => result.value.splits # <<>>

\* the splits were unset, the enumeration gave the empty list, and the call returned
C1_Witness ==
    /\ IsInfoCall
    /\ env.splits = <<>>
    /\ env.fail = "none"
    /\ env.gens = <<>>
    /\ result.kind = "return"
    /\ result.value.splits = << <<>> >>

\* C2 as stated: with the splits unset, whatever a step of split discovery
\* raises reaches the caller as SplitsNotFoundError with the fixed message and
\* the original error as its cause.
C2_AnyErrorTranslated ==
    (IsInfoCall /\ DiscoveryFails) =>
        /\ result.kind = "raise"
        /\ result.error = <<TheTranslatedError>>

\* C2 amended: with the splits unset, an error that is an instance of Exception
\* and is raised by a step of split discovery reaches the caller as
\* SplitsNotFoundError with the fixed message and the original error as its
\* cause; an error that is no instance of Exception (KeyboardInterrupt) reaches
\* the caller as it is.
C2_ExceptionTranslated ==
    (IsInfoCall /\ DiscoveryFails) =>
        /\ result.kind = "raise"
        /\ (env.err # "KeyboardInterrupt" => result.error = <<TheTranslatedError>>)
        /\ (env.err = "KeyboardInterrupt" => result.error = <<TheRawError>>)

\* a network error inside _split_generators came out translated
C2_Witness ==
    /\ IsInfoCall
    /\ DiscoveryFails
    /\ env.fail = "_split_generators"
    /\ env.err = "ConnectionError"
    /\ result.kind = "raise"
    /\ result.error[1].type = "SplitsNotFoundError"
    /\ result.error[1].cause[1].type = "ConnectionError"

\* the collaborator of the call that raised outside split discovery
RaisedOutsideDiscovery ==
    \/ /\ op \in {"get_dataset_config_info", "get_dataset_split_names"}
       /\ env.fail \in {"load_dataset_builder", "extend_dataset_builder_for_streaming"}
    \/ /\ op = "get_dataset_config_names"
       /\ env.fail \in {"dataset_module_factory", "import_main_class"}
    \/ /\ op \in {"inspect_dataset", "inspect_metric"}
       /\ env.fail = "factory"
    \/ /\ op \in {"list_datasets", "list_metrics"}
       /\ env.fail = "hub"

\* C3: an error raised by load_dataset_builder or the streaming adapter inside
\* get_dataset_config_info, by the module factory or the class importer inside
\* get_dataset_config_names, by the factories inside inspect_dataset and
\* inspect_metric, or by the catalog client inside list_datasets and
\* list_metrics reaches the caller unchanged, never as SplitsNotFoundError.
C3_PassThrough ==
    RaisedOutsideDiscovery =>
        /\ result.kind = "raise"
        /\ result.error = <<TheRawError>>
        /\ result.error[1].type # "SplitsNotFoundError"

\* load_dataset_builder raised a network error inside get_dataset_config_info
C3_Witness ==
    /\ IsInfoCall
    /\ env.fail = "load_dataset_builder"
    /\ env.err = "ConnectionError"
    /\ result.kind = "raise"
    /\ result.error[1].type = "ConnectionError"

IsListCall == op \in {"list_datasets", "list_metrics"}

WithCommunity ==
    IF op = "list_datasets" THEN args.with_community_datasets ELSE args.with_community_metrics

HasSeparator(id) == \E i \in 1..Len(id) : id[i] = "/"

\* the identifiers of what a list call returned
ListedIds ==
    IF args.with_details THEN [i \in 1..Len(result.value) |-> result.value[i].id]
    ELSE result.value

\* out is ids without its entries that have a separator, order kept
IsCanonicalPart(out, ids) ==
    /\ \A i \in 1..Len(out) : ~HasSeparator(out[i])
    /\ Len(out) = Cardinality({i \in 1..Len(ids) : ~HasSeparator(ids[i])})
    /\ \E f \in [1..Len(out) -> 1..Len(ids)] :
        /\ \A i \in 1..Len(out) : ids[f[i]] = out[i]
        /\ \A i, j \in 1..Len(out) : i < j => f[i] < f[j]

\* C4: list_datasets and list_metrics return, in catalog order, the entries
\* without a "/" in their identifier when community entries are excluded and
\* every entry otherwise; as identifier strings without details, and as the
\* catalog's records with details, whose .id is the string the same call
\* without details returns at that place.
C4_ListFilterProject ==
    (IsListCall /\ env.fail = "none") =>
        /\ result.kind = "return"
        /\ (WithCommunity => ListedIds = env.ids)
        /\ (~WithCommunity => IsCanonicalPart(ListedIds, env.ids))
        /\ (args.with_details =>
               \A i \in 1..Len(result.value) :
                  /\ result.value[i].detail = (IF op = "list_datasets" THEN "full" ELSE "metric")
                  /\ result.value[i].id =
                        (IF op = "list_datasets"
                         THEN list_datasets(WithCommunity, FALSE, env).value[i]
                         ELSE list_metrics(WithCommunity, FALSE, env).value[i]))

\* a catalog with a community entry before a canonical one, listed without
\* community entries
C4_Witness ==
    /\ op = "list_datasets"
    /\ env.fail = "none"
    /\ ~args.with_community_datasets
    /\ ~args.with_details
    /\ Len(env.ids) = 3
    /\ HasSeparator(env.ids[1])
    /\ ~HasSeparator(env.ids[2])
    /\ result.kind = "return"
    /\ Len(result.value) = 2

IsNamesCall == op = "get_dataset_config_names"

\* the name recorded under "config_name" in the builder kwargs, if one is
RecordedConfigName ==
    IF \E i \in 1..Len(env.builder_kwargs) :
          env.builder_kwargs[i].k = "config_name" /\ env.builder_kwargs[i].v # "None"
    THEN (CHOOSE x \in {env.builder_kwargs[i].v : i \in
                          {j \in 1..Len(env.builder_kwargs) :
                              env.builder_kwargs[j].k = "config_name"}} : TRUE)
    ELSE "default"

\* C5: with no configuration declared, get_dataset_config_names returns one
\* entry: the name recorded under "config_name" in the builder kwargs, or
\* "default" when none is recorded, also when the key is there with None.
C5_SingleFallbackName ==
    (IsNamesCall /\ env.fail = "none" /\ env.builder_configs = <<>>) =>
        /\ result.kind = "return"
        /\ result.value = <<RecordedConfigName>>

\* C6: with one or more configurations declared, get_dataset_config_names
\* returns the declared names, each once, in declaration order, whatever the
\* builder kwargs hold.
C6_DeclaredNamesInOrder ==
    (IsNamesCall /\ env.fail = "none" /\ env.builder_configs # <<>>) =>
        /\ result.kind = "return"
        /\ Len(result.value) = Len(env.builder_configs)
        /\ \A i \in 1..Len(result.value) : result.value[i] = env.builder_configs[i].k

\* two declared configurations, not in alphabetical order, and a config_name
\* in the builder kwargs
C6_Witness ==
    /\ IsNamesCall
    /\ env.fail = "none"
    /\ Len(env.builder_configs) = 2
    /\ env.builder_configs[1].k = "sst2"
    /\ env.builder_configs[2].k = "cola"
    /\ \E i \in 1..Len(env.builder_kwargs) : env.builder_kwargs[i].k = "config_name"
    /\ result.kind = "return"

\* what get_dataset_config_info gives for the arguments and collaborators of
\* the call
HeapBefore ==
    <<[use_auth_token |-> "old_token", truthy |-> TRUE],
      [use_auth_token |-> "old_token", truthy |-> FALSE]>>

InfoOfCall == get_dataset_config_info(args, env, HeapBefore).result

\* C7: get_dataset_split_names returns the keys of the splits mapping of the
\* info object get_dataset_config_info produces for the same inputs and
\* collaborators, in the same order, and raises exactly when it raises, with
\* the same error.
C7_SplitNamesAreKeys ==
    (op = "get_dataset_split_names") =>
        /\ (result.kind = "raise") = (InfoOfCall.kind = "raise")
        /\ (result.kind = "raise" => result.error = InfoOfCall.error)
        /\ (result.kind = "return" =>
               LET splits == InfoOfCall.value.splits[1]
               IN  /\ Len(result.value) = Len(splits)
                   /\ \A i \in 1..Len(splits) : result.value[i] = splits[i].k)

\* splits discovered from two generators, returned in their order
C7_Witness ==
    /\ op = "get_dataset_split_names"
    /\ env.splits = <<>>
    /\ env.gens = <<"train", "test">>
    /\ result.kind = "return"
    /\ result.value = <<"train", "test">>

IsInfosCall == op = "get_dataset_infos"

\* get_dataset_config_names with the parameters of the get_dataset_infos call
NamesOfCall ==
    get_dataset_config_names(
        [path |-> args.path, revision |-> args.revision,
         download_config |-> args.download_config, download_mode |-> args.download_mode,
         force_local_path |-> "None", dynamic_modules_path |-> "None",
         data_files |-> args.data_files, download_kwargs |-> "None"],
        env.names).result

\* the arguments of the caller, for the configuration config_name
CallerInfoArgs(config_name) ==
    [path |-> args.path, config_name |-> config_name, data_files |-> args.data_files,
     download_config |-> args.download_config, download_mode |-> args.download_mode,
     revision |-> args.revision, use_auth_token |-> args.use_auth_token,
     config_kwargs |-> args.config_kwargs]

\* what get_dataset_config_info gives for the j-th configuration name
InfoOfConfig(j) ==
    get_dataset_config_info(CallerInfoArgs(NamesOfCall.value[j]), env.infos[j],
                            HeapBefore).result

\* the calls of load_dataset_builder, one per lookup, in the order made
Lookups == SelectSeq(trace, LAMBDA c : c.fn = "load_dataset_builder")

LookupOf(config_name) ==
    [fn |-> "load_dataset_builder",
     a |-> <<args.path, config_name, args.data_files, args.download_config,
             args.download_mode, args.revision, args.use_auth_token, args.config_kwargs>>]

\* C8: when get_dataset_infos returns, the keys of the mapping are the names
\* get_dataset_config_names returns for the same path, revision,
\* download_config, download_mode and data_files, and the value of each key is
\* the info object get_dataset_config_info returns for that name, looked up
\* with the caller's arguments.
C8_InfosKeysAndValues ==
    (IsInfosCall /\ result.kind = "return") =>
        /\ NamesOfCall.kind = "return"
        /\ {result.value[i].k : i \in 1..Len(result.value)} =
              {NamesOfCall.value[j] : j \in 1..Len(NamesOfCall.value)}
        /\ Len(result.value) = Len(NamesOfCall.value)
        /\ \A j \in 1..Len(NamesOfCall.value) :
              /\ InfoOfConfig(j).kind = "return"
              /\ \E i \in 1..Len(result.value) :
                    /\ result.value[i].k = NamesOfCall.value[j]
                    /\ result.value[i].v = InfoOfConfig(j).value
              /\ Lookups[j] = LookupOf(NamesOfCall.value[j])

\* two configurations, one with recorded splits and one with discovered splits
C8_Witness ==
    /\ IsInfosCall
    /\ result.kind = "return"
    /\ Len(result.value) = 2
    /\ env.infos[1].splits # <<>>
    /\ env.infos[2].splits = <<>>
    /\ args.use_auth_token = "hf_token"

\* the lookups that fail
FailingLookups ==
    {j \in 1..Len(NamesOfCall.value) : InfoOfConfig(j).kind = "raise"}

FirstFailing == CHOOSE j \in FailingLookups : \A k \in FailingLookups : j <= k

\* C9: when the lookup of a configuration fails, get_dataset_infos raises the
\* error of the first failing lookup and returns no mapping; the
\* configurations are looked up once each in the order of the names, up to
\* the failing one and none after it.
C9_AbortOnFirstFailure ==
    (IsInfosCall /\ NamesOfCall.kind = "return" /\ FailingLookups # {}) =>
        /\ result.kind = "raise"
        /\ result.value = "None"
        /\ result.error = InfoOfConfig(FirstFailing).error
        /\ Len(Lookups) = FirstFailing
        /\ \A j \in 1..FirstFailing : Lookups[j] = LookupOf(NamesOfCall.value[j])

\* the first of two lookups succeeded, the second failed, and no mapping came back
C9_Witness ==
    /\ IsInfosCall
    /\ NamesOfCall.kind = "return"
    /\ Len(NamesOfCall.value) = 2
    /\ env.infos[1].fail = "none"
    /\ env.infos[2].fail = "_split_generators"
    /\ result.kind = "raise"
    /\ Len(Lookups) = 2

FirstIndex(s, x) == CHOOSE i \in 1..Len(s) : s[i] = x /\ \A j \in 1..(i - 1) : s[j] # x

\* C10: when the splits are unset and the enumeration succeeds, the keys of
\* the assigned mapping are the names of the generators, each once, in the
\* order of first occurrence, and the key n maps to the record with name n and
\* the path argument as dataset name; when the splits are present,
\* _split_generators is not called and the mapping is returned as it was.
C10_DiscoveredSplits ==
    (IsInfoCall /\ result.kind = "return") =>
        IF env.splits = <<>>
        THEN LET m == result.value.splits[1]
             IN  /\ {m[i].k : i \in 1..Len(m)} = {env.gens[i] : i \in 1..Len(env.gens)}
                 /\ \A i, j \in 1..Len(m) :
                       i < j => FirstIndex(env.gens, m[i].k) < FirstIndex(env.gens, m[j].k)
                 /\ \A i \in 1..Len(m) :
                       m[i].v = [name |-> m[i].k, dataset_name |-> args.path]
        ELSE /\ result.value.splits = env.splits
             /\ \A i \in 1..Len(trace) : trace[i].fn # "_split_generators"

\* a generator name that comes back a second time after another name
C10_Witness ==
    /\ IsInfoCall
    /\ env.splits = <<>>
    /\ env.gens = <<"train", "test", "train">>
    /\ args.path = "user/squad"
    /\ result.kind = "return"
    /\ Len(result.value.splits[1]) = 2

RunsInfo == op \in {"get_dataset_config_info", "get_dataset_split_names"}

\* the calls that construct the streaming download manager
ManagerCalls == SelectSeq(trace, LAMBDA c : c.fn = "StreamingDownloadManager")

\* the configuration split discovery starts from: the caller's when it passed
\* one that tests true, a default one otherwise
ConfigToPrepare ==
    IF args.download_config # 0 /\ HeapBefore[args.download_config].truthy
    THEN HeapBefore[args.download_config]
    ELSE [use_auth_token |-> "None", truthy |-> TRUE]

\* that configuration with the token laid over it when one is given
ConfigPrepared ==
    IF args.use_auth_token # "None"
    THEN [ConfigToPrepare EXCEPT !.use_auth_token = args.use_auth_token]
    ELSE ConfigToPrepare

\* C11: get_dataset_config_info leaves the caller's download configuration as
\* it was, after a successful and after a failing call; the token is laid over
\* a copy, or over a new default configuration when None or a falsy one was
\* passed, only when use_auth_token is not None (False is laid over too); and
\* the streaming download manager gets that prepared configuration.
C11_CallerConfigUntouched ==
    /\ (op # "idle" =>
           /\ Len(heap) >= Len(HeapBefore)
           /\ \A r \in 1..Len(HeapBefore) : heap[r] = HeapBefore[r])
    /\ (RunsInfo =>
           /\ Len(ManagerCalls) <= 1
           /\ \A i \in 1..Len(ManagerCalls) :
                 /\ ManagerCalls[i].a[1] > Len(HeapBefore)
                 /\ ManagerCalls[i].a[1] = Len(heap)
                 /\ heap[ManagerCalls[i].a[1]] = ConfigPrepared
           /\ (args.use_auth_token = "None" =>
                  \A i \in 1..Len(trace) : trace[i].fn # "download_config.use_auth_token"))

\* the caller passed its configuration and False as the token; the manager got
\* a copy holding False and the caller's configuration holds its old token
C11_Witness ==
    /\ op = "get_dataset_config_info"
    /\ args.download_config = 1
    /\ args.use_auth_token = "False"
    /\ result.kind = "return"
    /\ Len(ManagerCalls) = 1
    /\ heap[ManagerCalls[1].a[1]].use_auth_token = "False"
    /\ heap[1].use_auth_token = "old_token"

====
